---------------------------- MODULE Spec2Model ----------------------------
(***************************************************************************)
(* A model of mermaid2img (src/main.ts): the fenced-block locator          *)
(* MERMAID_RE, the reverse-order splice loop of processFile, the batch     *)
(* loop and browser lifecycle of main, and the directory walk              *)
(* collectMarkdownFiles.                                                   *)
(*                                                                         *)
(* Text is a sequence of characters; a character is a one-character        *)
(* string, except the grave accent U+0060, written Tick.  Offsets are the  *)
(* 0-based offsets of JavaScript: the character at offset p of s is        *)
(* s[p + 1].                                                               *)
(***************************************************************************)
EXTENDS Integers, Sequences, FiniteSets, TLC

VARIABLES
    fmt,        \* "svg" | "jpg"                               (line 83)
    mode,       \* "b64" | "files"                             (line 84)
    files,      \* main: the documents to scan, each a path    (line 244)
    idx,        \* main: 1-based position of the for-of loop   (line 263)
    pc,         \* the position of the run
    browser,    \* "none" | "open" | "closed"                 (line 256, 269)
    page,       \* "none" | "open" | "closed"                 (line 261, 267)
    launches,   \* how many times chromium.launch returned a browser
    closes,     \* how many times browser.close was called
    processed,  \* main: processed                             (line 258)
    error,      \* the exception in flight, or "none"
    exitCode,   \* -1 while running, then the process outcome
    summary,    \* <<n>> once "Done. n file(s) ..." is printed, else <<>>
    fatalMsg,   \* what main().catch printed, or "none"
    content,    \* processFile: content                        (line 176)
    matches,    \* processFile: matches                        (line 177)
    i,          \* processFile: the loop index i               (line 195)
    result,     \* processFile: result                         (line 192)
    failures,   \* processFile: failures                       (line 193)
    renderLog,  \* the renderDiagram calls of this document, in call order
    images,     \* the image files written for this document
    dirs,       \* the mermaid/ directories created in this run
    outputs,    \* the output documents written in this run
    outText,    \* the text of the output document of this document
    ret,        \* what processFile returned, "none" while it has not
    reads,      \* the positions of the documents readFile was called on
    diagramDocs,\* the documents in which the locator matched a block
    fs,         \* walk: the files of the directory tree, each a path
    selected,   \* walk: what each collectMarkdownFiles call returned
    produced    \* walk: the files a run wrote into the tree

vars == <<fmt, mode, files, idx, pc, browser, page, launches, closes, processed,
          error, exitCode, summary, fatalMsg, content, matches, i, result,
          failures, renderLog, images, dirs, outputs, outText, ret, reads,
          diagramDocs, fs, selected, produced>>

docVars == <<content, matches, i, result, failures, renderLog, images, outText,
            ret>>
runVars == <<fmt, mode, files, idx, browser, page, launches, closes, processed,
             error, exitCode, summary, fatalMsg, dirs, outputs, reads, diagramDocs>>
walkVars == <<fs, selected, produced>>

-----------------------------------------------------------------------------
(* Characters and string primitives of the JavaScript runtime.             *)

Tick == "BQ"
NL == "\n"

\* ECMAScript LineTerminator (the ones a document of the model can hold).
IsLineTerminator(c) == c \in {"\n", "\r"}

\* ECMAScript \s (the members a document of the model can hold).
IsWhiteSpace(c) == c \in {" ", "\t", "\n", "\r"}

Min(S) == CHOOSE x \in S : \A y \in S : x <= y
Max(S) == CHOOSE x \in S : \A y \in S : x >= y

\* String.prototype.slice(from, to) for 0 <= from, to.
Slice(s, from, to) == SubSeq(s, from + 1, IF to > Len(s) THEN Len(s) ELSE to)

\* s.startsWith(lit, p)
StartsWithAt(s, lit, p) ==
    /\ p + Len(lit) <= Len(s)
    /\ \A k \in 1..Len(lit) : s[p + k] = lit[k]

-----------------------------------------------------------------------------
(* MERMAID_RE = /^```mermaid[^\n]*\n([\s\S]*?)^```\s*$/gm                  *)

FENCE == <<Tick, Tick, Tick>>
OPEN_FENCE == FENCE \o <<"m", "e", "r", "m", "a", "i", "d">>

\* ^ under the m flag: at offset 0 or right after a line terminator.
AtLineStart(s, p) == p = 0 \/ IsLineTerminator(s[p])

\* $ under the m flag: at the end of input or right before a line terminator.
AtLineEnd(s, p) == p = Len(s) \/ IsLineTerminator(s[p + 1])

\* The offset after  ^```mermaid[^\n]*\n  matched at p, or -1.  The greedy
\* [^\n]* must stop at the first "\n": any shorter run is followed by a
\* character that is not "\n".
OpenEnd(s, p) ==
    IF AtLineStart(s, p) /\ StartsWithAt(s, OPEN_FENCE, p)
    THEN LET nls == {q \in (p + Len(OPEN_FENCE))..(Len(s) - 1) : s[q + 1] = "\n"}
         IN  IF nls = {} THEN -1 ELSE Min(nls) + 1
    ELSE -1

\* CloseEnd without the ^ before the closing fence.
CloseEndMut(s, r) ==
    IF StartsWithAt(s, FENCE, r)
    THEN LET ends == {e \in (r + Len(FENCE))..Len(s) :
                         /\ \A k \in (r + Len(FENCE) + 1)..e : IsWhiteSpace(s[k])
                         /\ AtLineEnd(s, e)}
         IN  IF ends = {} THEN -1 ELSE Max(ends)
    ELSE -1

\* The offset after  ^```\s*$  matched at r, or -1.  \s* is greedy and
\* backtracks: the match ends at the last offset of the white-space run
\* that is a line end.
CloseEnd(s, r) ==
    IF AtLineStart(s, r) /\ StartsWithAt(s, FENCE, r)
    THEN LET ends == {e \in (r + Len(FENCE))..Len(s) :
                         /\ \A k \in (r + Len(FENCE) + 1)..e : IsWhiteSpace(s[k])
                         /\ AtLineEnd(s, e)}
         IN  IF ends = {} THEN -1 ELSE Max(ends)
    ELSE -1

NoMatch == [index |-> -1, whole |-> <<>>, group |-> <<>>]

\* The match of MERMAID_RE that starts at offset p, or NoMatch.  The lazy
\* ([\s\S]*?) takes the shortest body after which the closing part matches.
MatchAt(s, p) ==
    LET c == OpenEnd(s, p)
    IN  IF c = -1 THEN NoMatch
        ELSE LET rs == {r \in c..Len(s) : CloseEnd(s, r) # -1}
             IN  IF rs = {} THEN NoMatch
                 ELSE LET r == Min(rs)
                      IN  [index |-> p,
                           whole |-> Slice(s, p, CloseEnd(s, r)),
                           group |-> Slice(s, c, r)]

\* RegExp.prototype.exec from lastIndex: the leftmost match, or NoMatch.
Exec(s, lastIndex) ==
    LET ps == {p \in lastIndex..Len(s) : MatchAt(s, p).index # -1}
    IN  IF ps = {} THEN NoMatch ELSE MatchAt(s, Min(ps))

RECURSIVE MatchAllFrom(_, _)
\* String.prototype.matchAll with the g flag: successive exec calls, each
\* from the end of the previous match (one further after an empty match).
MatchAllFrom(s, lastIndex) ==
    LET m == Exec(s, lastIndex)
    IN  IF m.index = -1 THEN <<>>
        ELSE LET e == m.index + Len(m.whole)
             IN  <<m>> \o MatchAllFrom(s, IF Len(m.whole) = 0 THEN e + 1 ELSE e)

MatchAll(s) == MatchAllFrom(s, 0)

-----------------------------------------------------------------------------
(* Bounded documents for the locator: concatenations of pieces.            *)

MaxPieces == 6

Pieces == { OPEN_FENCE \o <<NL>>, FENCE, <<NL>>, <<"x">>, <<" ">> }

RECURSIVE Concats(_, _)
\* Every concatenation of at most n members of P.
Concats(P, n) ==
    IF n = 0 THEN {<<>>}
    ELSE LET shorter == Concats(P, n - 1)
         IN  shorter \cup {d \o p : d \in shorter, p \in P}

LocatorDocs == Concats(Pieces, MaxPieces)

\* The variables a specification does not use stay at these values.
IdleDoc ==
    /\ content = <<>> /\ matches = <<>> /\ i = -1 /\ result = <<>>
    /\ failures = 0 /\ renderLog = <<>> /\ images = {} /\ outText = <<>>
    /\ ret = "none"

IdleRun ==
    /\ fmt = "jpg" /\ mode = "b64" /\ files = <<>> /\ idx = 1
    /\ browser = "none" /\ page = "none" /\ launches = 0 /\ closes = 0
    /\ processed = 0 /\ error = "none" /\ exitCode = -1 /\ summary = <<>>
    /\ fatalMsg = "none" /\ dirs = {} /\ outputs = {} /\ reads = {}
    /\ diagramDocs = {}

IdleWalk == fs = {} /\ selected = <<>> /\ produced = {}

InitLocate ==
    /\ content \in LocatorDocs
    /\ matches = <<>> /\ i = -1 /\ result = <<>>
    /\ failures = 0 /\ renderLog = <<>> /\ images = {} /\ outText = <<>>
    /\ ret = "none"
    /\ pc = "read"
    /\ IdleRun /\ IdleWalk

\* processFile, line 177, on a document that has been read.
Locate ==
    /\ pc = "read"
    /\ matches' = MatchAll(content)
    /\ pc' = "located"
    /\ UNCHANGED <<content, i, result, failures, renderLog, images, outText, ret>>
    /\ UNCHANGED <<runVars, walkVars>>

NextLocate == Locate

SpecLocate == InitLocate /\ [][NextLocate]_vars

-----------------------------------------------------------------------------
(* Strings: number formatting, trim, base64, and the path functions.       *)

Digits == <<"0", "1", "2", "3", "4", "5", "6", "7", "8", "9">>

RECURSIVE NumberToString(_)
\* `${n}` for an integer n >= 0.
NumberToString(n) ==
    IF n < 10 THEN <<Digits[n + 1]>>
    ELSE NumberToString(n \div 10) \o <<Digits[(n % 10) + 1]>>

\* String.prototype.trim
Trim(s) ==
    LET keep == {k \in 1..Len(s) : ~IsWhiteSpace(s[k])}
    IN  IF keep = {} THEN <<>> ELSE SubSeq(s, Min(keep), Max(keep))

Base64Alphabet ==
    <<"A", "B", "C", "D", "E", "F", "G", "H", "I", "J", "K", "L", "M",
      "N", "O", "P", "Q", "R", "S", "T", "U", "V", "W", "X", "Y", "Z",
      "a", "b", "c", "d", "e", "f", "g", "h", "i", "j", "k", "l", "m",
      "n", "o", "p", "q", "r", "s", "t", "u", "v", "w", "x", "y", "z",
      "0", "1", "2", "3", "4", "5", "6", "7", "8", "9", "+", "/">>

RECURSIVE Base64(_)
\* Buffer.prototype.toString("base64"): three bytes make four characters,
\* a last group of one or two bytes is padded with "=".
Base64(bytes) ==
    LET n  == Len(bytes)
        b1 == bytes[1]
        b2 == IF n >= 2 THEN bytes[2] ELSE 0
        b3 == IF n >= 3 THEN bytes[3] ELSE 0
        c1 == Base64Alphabet[(b1 \div 4) + 1]
        c2 == Base64Alphabet[((b1 % 4) * 16 + (b2 \div 16)) + 1]
        c3 == Base64Alphabet[((b2 % 16) * 4 + (b3 \div 64)) + 1]
        c4 == Base64Alphabet[(b3 % 64) + 1]
    IN  IF n = 0 THEN <<>>
        ELSE IF n = 1 THEN <<c1, c2, "=", "=">>
        ELSE IF n = 2 THEN <<c1, c2, c3, "=">>
        ELSE <<c1, c2, c3, c4>> \o Base64(SubSeq(bytes, 4, n))

\* s.endsWith(lit)
EndsWith(s, lit) == Len(lit) <= Len(s) /\ StartsWithAt(s, lit, Len(s) - Len(lit))

\* s.includes(lit)
Includes(s, lit) == \E p \in 0..Len(s) : StartsWithAt(s, lit, p)

(* A path is the sequence of its names, root first; a name is a string.    *)
(* path.join(dir, name), path.dirname and path.basename then add, drop and *)
(* take the last name.                                                     *)

Join(dir, name) == Append(dir, name)
Dirname(path) == SubSeq(path, 1, Len(path) - 1)
LastName(path) == path[Len(path)]

\* path.extname: from the last "." of the last name; empty when there is
\* none or when it is the name's first character.
Extname(path) ==
    LET name == LastName(path)
        dots == {k \in 1..Len(name) : name[k] = "."}
    IN  IF dots = {} \/ Max(dots) = 1 \/ name = <<".", ".">> THEN <<>>
        ELSE SubSeq(name, Max(dots), Len(name))

\* path.basename(path, ext): the last name without the suffix ext, unless
\* ext is the whole name.
Basename(path, ext) ==
    LET name == LastName(path)
    IN  IF Len(ext) > 0 /\ Len(ext) < Len(name) /\ EndsWith(name, ext)
        THEN SubSeq(name, 1, Len(name) - Len(ext))
        ELSE name

-----------------------------------------------------------------------------
(* processFile: the names it derives from filePath (lines 181-184, 215,    *)
(* 228-229).                                                               *)

MD_EXT == <<".", "m", "d">>
MARKER == <<"_", "m", "e", "r", "m", "a", "i", "d", "2">>
MERMAID_DIRNAME == <<"m", "e", "r", "m", "a", "i", "d">>
JPG_EXT == <<".", "j", "p", "g">>

MermaidDir(filePath) == Join(Dirname(filePath), MERMAID_DIRNAME)

\* ImageName with the 0-based loop index as the ordinal.
ImageNameMut(filePath, k) ==
    Basename(filePath, Extname(filePath)) \o <<"-">> \o NumberToString(k) \o JPG_EXT

\* fname of the diagram at loop index k (0-based), line 215.
ImageName(filePath, k) ==
    Basename(filePath, Extname(filePath)) \o <<"-">> \o NumberToString(k + 1) \o JPG_EXT

ImagePath(filePath, k) == Join(MermaidDir(filePath), ImageName(filePath, k))

Suffix(f) == MARKER \o (IF f = "svg" THEN <<"s", "v", "g">> ELSE <<"j", "p", "g">>)

OutPath(filePath, f) ==
    Join(Dirname(filePath),
         Basename(filePath, Extname(filePath)) \o Suffix(f) \o Extname(filePath))

-----------------------------------------------------------------------------
(* renderDiagram (lines 155-173): what the browser can answer.             *)

None == <<"undefined">>

SvgExtra == 1

Fill(n) == [k \in 1..n |-> "s"]

\* The vector markup the page may return for a block whose span has
\* length len: with the two "\n" of line 208 the replacement is shorter
\* than the span, as long as the span, or longer.
Svgs(len) == {Fill(1), Fill(len - 2), Fill(len + SvgExtra)}

\* The JPEG bytes a screenshot may return.
Jpgs == {<<255, 216, 255>>, <<255, 216, 255, 224>>}

\* The outcomes of renderDiagram(page, code): it throws (err) or returns
\* {svg, jpg}.  page.evaluate may reject (line 159); under fmt = "jpg"
\* page.$ may find no element (line 168) and the screenshot may reject
\* (line 169); under fmt = "svg" jpg stays undefined (line 165).
RenderDiagram(f, len) ==
    {[err |-> "render", svg |-> <<>>, jpg |-> None]}
    \cup (IF f = "jpg"
          THEN {[err |-> e, svg |-> <<>>, jpg |-> None] :
                    e \in {"SVG element not found", "screenshot"}}
               \cup {[err |-> "none", svg |-> v, jpg |-> j] : v \in Svgs(len), j \in Jpgs}
          ELSE {[err |-> "none", svg |-> v, jpg |-> None] : v \in Svgs(len)})

-----------------------------------------------------------------------------
(* processFile (lines 175-239).                                            *)

IMG_OPEN == <<"!", "[", "D", "i", "a", "g", "r", "a", "m", " ">>
DATA_URI == <<"]", "(", "d", "a", "t", "a", ":", "i", "m", "a", "g", "e", "/",
              "j", "p", "e", "g", ";", "b", "a", "s", "e", "6", "4", ",">>
REL_DIR == <<"]", "(", ".", "/", "m", "e", "r", "m", "a", "i", "d", "/">>

\* Line 208.
SvgReplacement(svg) == <<NL>> \o svg \o <<NL>>

\* Line 213, for the loop index k.
B64Replacement(k, jpg) ==
    IMG_OPEN \o NumberToString(k + 1) \o DATA_URI \o Base64(jpg) \o <<")">>

\* Line 217, for the loop index k.
FileReplacement(filePath, k) ==
    IMG_OPEN \o NumberToString(k + 1) \o REL_DIR \o ImageName(filePath, k) \o <<")">>

\* Splice with the tail taken one character late.
SpliceMut(res, start, end, replacement) ==
    Slice(res, 0, start) \o replacement \o Slice(res, end + 1, Len(res))

\* Line 220.
Splice(res, start, end, replacement) ==
    Slice(res, 0, start) \o replacement \o Slice(res, end, Len(res))

\* The for statement of line 195: its first index, its step, its test.
LoopStart(n) == n - 1
\* LoopStep that skips every other block.
LoopStepMut(k) == k - 2
LoopStep(k) == k - 1
LoopCond(k) == k >= 0

FilePath == files[idx]

\* processFile returns v to line 264.
Return(v) ==
    /\ ret' = v
    /\ idx' = idx
    /\ pc' = "return"

\* Throw caught per document: the loop of main goes on.
ThrowMut(e) ==
    /\ error' = e
    /\ idx' = idx + 1
    /\ pc' = "file"

\* An exception leaves the try block of main (line 268): no statement of
\* the block runs after it.
Throw(e) ==
    /\ error' = e
    /\ idx' = idx
    /\ pc' = "finally"

-----------------------------------------------------------------------------
(* Bounded documents and file lists for a run.                             *)

MaxSegs == 4
MaxFiles == 2

DIAGRAM == OPEN_FENCE \o <<NL, "A", NL>> \o FENCE

Segs == { DIAGRAM, <<NL>>, <<"x">> }

RunDocs == Concats(Segs, MaxSegs)

\* The documents a directory walk can return, in walk order, and a file
\* without extension that only  --md <file>  can name.
PathPool ==
    << << <<"a", ".", "m", "d">> >>,
       << <<"d">>, <<"b", ".", "m", "d">> >>,
       << <<"d">>, <<"c", ".", "m", "d">> >> >>

SinglePaths == { << <<"R", "E", "A", "D", "M", "E">> >> }

RECURSIVE Sublists(_, _)
\* The subsequences of pool that have at most n members.
Sublists(pool, n) ==
    IF Len(pool) = 0 \/ n = 0 THEN {<<>>}
    ELSE Sublists(Tail(pool), n)
         \cup {<<Head(pool)>> \o t : t \in Sublists(Tail(pool), n - 1)}

FileLists == Sublists(PathPool, MaxFiles) \cup {<<f>> : f \in SinglePaths}

-----------------------------------------------------------------------------
(* A run of main (lines 241-278) over the documents of files.              *)

\* The pairs of fmt and mode that pass the checks of lines 69-80.
Options == {<<"svg", "b64">>, <<"jpg", "b64">>, <<"jpg", "files">>}

Init ==
    /\ \E o \in Options : fmt = o[1] /\ mode = o[2]
    /\ files \in FileLists
    /\ idx = 1
    /\ pc = "start"
    /\ browser = "none" /\ page = "none" /\ launches = 0 /\ closes = 0
    /\ processed = 0 /\ error = "none" /\ exitCode = -1 /\ summary = <<>>
    /\ fatalMsg = "none" /\ dirs = {} /\ outputs = {} /\ reads = {}
    /\ diagramDocs = {}
    /\ IdleDoc /\ IdleWalk

\* Lines 248-256: nothing to scan, or chromium.launch.
Launch ==
    /\ pc = "start"
    /\ \/ /\ Len(files) = 0
          /\ pc' = "done"
          /\ exitCode' = 0
          /\ UNCHANGED <<browser, launches, error>>
       \/ /\ Len(files) > 0
          /\ browser' = "open"
          /\ launches' = launches + 1
          /\ pc' = "init"
          /\ UNCHANGED <<exitCode, error>>
       \/ /\ Len(files) > 0
          /\ error' = "launch"
          /\ pc' = "catch"
          /\ UNCHANGED <<browser, launches, exitCode>>
    /\ UNCHANGED <<fmt, mode, files, idx, page, closes, processed, summary,
                   fatalMsg, dirs, outputs, reads, diagramDocs>>
    /\ UNCHANGED <<docVars, walkVars>>

\* Line 261, initPage (lines 117-153): the page is ready, or newPage or
\* setContent rejects, or waitForFunction times out (line 147).
InitPage ==
    /\ pc = "init"
    /\ \/ /\ page' = "open"
          /\ pc' = "file"
          /\ UNCHANGED <<error, idx>>
       \/ /\ \E e \in {"newPage", "Mermaid failed to load"} : Throw(e)
          /\ UNCHANGED page
    /\ UNCHANGED <<fmt, mode, files, browser, launches, closes, processed,
                   exitCode, summary, fatalMsg, dirs, outputs, reads, diagramDocs>>
    /\ UNCHANGED <<docVars, walkVars>>

\* NoDiagrams without the early return.
NoDiagramsMut(ms) == FALSE

\* Line 179.
NoDiagrams(ms) == Len(ms) = 0

\* Lines 176-193 of processFile, called at line 264: read the document,
\* locate its blocks, leave if there is none, create mermaid/.
ReadAndLocate ==
    /\ pc = "file"
    /\ idx <= Len(files)
    /\ reads' = reads \cup {idx}
    /\ renderLog' = <<>> /\ images' = {} /\ outText' = <<>> /\ failures' = 0
    /\ \/ /\ Throw("readFile")
          /\ content' = <<>> /\ matches' = <<>> /\ result' = <<>> /\ i' = -1
          /\ UNCHANGED <<dirs, diagramDocs, ret>>
       \/ \E doc \in RunDocs :
            LET ms == MatchAll(doc)
            IN  /\ content' = doc
                /\ matches' = ms
                /\ diagramDocs' = IF Len(ms) > 0 THEN diagramDocs \cup {FilePath}
                                  ELSE diagramDocs
                /\ IF NoDiagrams(ms)
                   THEN /\ Return(FALSE)
                        /\ result' = <<>> /\ i' = -1
                        /\ UNCHANGED <<error, dirs>>
                   ELSE \/ /\ fmt = "jpg" /\ mode = "files"
                           /\ Throw("mkdir")
                           /\ result' = <<>> /\ i' = -1
                           /\ UNCHANGED <<dirs, ret>>
                        \/ /\ dirs' = IF fmt = "jpg" /\ mode = "files"
                                      THEN dirs \cup {MermaidDir(FilePath)}
                                      ELSE dirs
                           /\ result' = doc
                           /\ i' = LoopStart(Len(ms))
                           /\ pc' = "loop"
                           /\ UNCHANGED <<idx, error, ret>>
    /\ UNCHANGED <<fmt, mode, files, browser, page, launches, closes, processed,
                   exitCode, summary, fatalMsg, outputs>>
    /\ UNCHANGED walkVars

\* CatchFailure that does not count the failure.
CatchFailureMut == failures' = failures

\* Lines 222-225: the catch of the loop body.
CatchFailure == failures' = failures + 1

\* One iteration of the loop of lines 195-226: render block i, shape the
\* replacement, splice it into result; whatever is thrown is caught.
RenderStep ==
    /\ pc = "loop"
    /\ LoopCond(i)
    /\ LET match == matches[i + 1]
           code  == Trim(match.group)
           start == match.index
           end   == start + Len(match.whole)
           Failed(reason) ==
               /\ CatchFailure
               /\ renderLog' = Append(renderLog,
                     [ord |-> i + 1, code |-> code, page |-> page,
                      err |-> reason, text |-> <<>>])
               /\ UNCHANGED <<result, images>>
           Done(replacement) ==
               /\ result' = Splice(result, start, end, replacement)
               /\ renderLog' = Append(renderLog,
                     [ord |-> i + 1, code |-> code, page |-> page,
                      err |-> "none", text |-> replacement])
               /\ UNCHANGED failures
       IN  \E r \in RenderDiagram(fmt, end - start) :
             IF r.err # "none" THEN Failed(r.err)
             ELSE IF fmt = "svg"
                  THEN Done(SvgReplacement(r.svg)) /\ UNCHANGED images
             ELSE IF r.jpg = None THEN Failed("Screenshot capture failed")
             ELSE IF mode = "b64"
                  THEN Done(B64Replacement(i, r.jpg)) /\ UNCHANGED images
             ELSE \/ Failed("writeFile image")
                  \/ /\ images' = images \cup {ImagePath(FilePath, i)}
                     /\ Done(FileReplacement(FilePath, i))
    /\ i' = LoopStep(i)
    /\ UNCHANGED <<content, matches, outText, ret, pc>>
    /\ UNCHANGED <<runVars, walkVars>>

\* Lines 228-238 of processFile: write the output document, return true.
WriteOutput ==
    /\ pc = "loop"
    /\ ~LoopCond(i)
    /\ \/ /\ Throw("writeFile")
          /\ UNCHANGED <<outputs, outText, ret>>
       \/ /\ outputs' = outputs \cup {OutPath(FilePath, fmt)}
          /\ outText' = result
          /\ Return(TRUE)
          /\ UNCHANGED error
    /\ UNCHANGED <<fmt, mode, files, browser, page, launches, closes, processed,
                   exitCode, summary, fatalMsg, dirs, reads, diagramDocs>>
    /\ UNCHANGED <<content, matches, i, result, failures, renderLog, images>>
    /\ UNCHANGED walkVars

\* Lines 263-265: processFile has returned, its locals are gone; count the
\* document if it returned true and go on to the next one.
Returned ==
    /\ pc = "return"
    /\ processed' = IF ret = TRUE THEN processed + 1 ELSE processed
    /\ idx' = idx + 1
    /\ pc' = "file"
    /\ content' = <<>> /\ matches' = <<>> /\ i' = -1 /\ result' = <<>>
    /\ failures' = 0 /\ renderLog' = <<>> /\ images' = {} /\ outText' = <<>>
    /\ ret' = "none"
    /\ UNCHANGED <<fmt, mode, files, browser, page, launches, closes, error,
                   exitCode, summary, fatalMsg, dirs, outputs, reads, diagramDocs>>
    /\ UNCHANGED walkVars

\* Line 267, after the last document; a rejection is swallowed.
ClosePage ==
    /\ pc = "file"
    /\ idx > Len(files)
    /\ page' = "closed"
    /\ pc' = "finally"
    /\ UNCHANGED <<fmt, mode, files, idx, browser, launches, closes, processed,
                   error, exitCode, summary, fatalMsg, dirs, outputs, reads,
                   diagramDocs>>
    /\ UNCHANGED <<docVars, walkVars>>

\* Finally that closes the browser on the normal way out only.
FinallyMut ==
    /\ pc = "finally"
    /\ browser' = IF error = "none" THEN "closed" ELSE browser
    /\ closes' = IF error = "none" THEN closes + 1 ELSE closes
    /\ page' = IF page = "open" /\ error = "none" THEN "closed" ELSE page
    /\ pc' = IF error = "none" THEN "summary" ELSE "catch"
    /\ UNCHANGED <<fmt, mode, files, idx, launches, processed, error, exitCode,
                   summary, fatalMsg, dirs, outputs, reads, diagramDocs>>
    /\ UNCHANGED <<docVars, walkVars>>

\* Lines 268-270: browser.close() on the way out of the try block, normal
\* or not; closing the browser closes its pages.
Finally ==
    /\ pc = "finally"
    /\ browser' = "closed"
    /\ closes' = closes + 1
    /\ page' = IF page = "open" THEN "closed" ELSE page
    /\ pc' = IF error = "none" THEN "summary" ELSE "catch"
    /\ UNCHANGED <<fmt, mode, files, idx, launches, processed, error, exitCode,
                   summary, fatalMsg, dirs, outputs, reads, diagramDocs>>
    /\ UNCHANGED <<docVars, walkVars>>

\* Line 272, then the process ends with outcome 0.
Summary ==
    /\ pc = "summary"
    /\ summary' = <<processed>>
    /\ exitCode' = 0
    /\ pc' = "done"
    /\ UNCHANGED <<fmt, mode, files, idx, browser, page, launches, closes,
                   processed, error, fatalMsg, dirs, outputs, reads, diagramDocs>>
    /\ UNCHANGED <<docVars, walkVars>>

\* Lines 275-278: main().catch prints "Fatal: ..." and exits with 1.
Catch ==
    /\ pc = "catch"
    /\ fatalMsg' = error
    /\ exitCode' = 1
    /\ pc' = "exited"
    /\ UNCHANGED <<fmt, mode, files, idx, browser, page, launches, closes,
                   processed, error, summary, dirs, outputs, reads, diagramDocs>>
    /\ UNCHANGED <<docVars, walkVars>>

Next ==
    \/ Launch
    \/ InitPage
    \/ ReadAndLocate
    \/ RenderStep
    \/ WriteOutput
    \/ Returned
    \/ ClosePage
    \/ Finally
    \/ Summary
    \/ Catch

Spec == Init /\ [][Next]_vars

-----------------------------------------------------------------------------
(* collectMarkdownFiles (lines 98-115) over a directory tree, given as the *)
(* set of the paths of its files; a run's writes into the tree; a second   *)
(* walk.                                                                   *)

IsPrefix(dir, path) == Len(dir) < Len(path) /\ SubSeq(path, 1, Len(dir)) = dir

\* readdir(dir): the names of the entries of dir.
Readdir(tree, dir) == {p[Len(dir) + 1] : p \in {q \in tree : IsPrefix(dir, q)}}

\* entry.isDirectory()
IsDirectory(tree, full) == \E p \in tree : IsPrefix(full, p)

RECURSIVE SeqOf(_)
\* The entries in the order readdir returns them: some fixed order.
SeqOf(S) ==
    IF S = {} THEN <<>>
    ELSE LET x == CHOOSE y \in S : TRUE IN <<x>> \o SeqOf(S \ {x})

\* Selects without the marker test.
SelectsMut(name) == EndsWith(name, MD_EXT)

\* Lines 107-108.
Selects(name) == EndsWith(name, MD_EXT) /\ ~Includes(name, MARKER)

RECURSIVE CollectEntries(_, _, _)
RECURSIVE CollectMarkdownFiles(_, _)

\* The for loop of lines 102-112 over the entries not yet visited.
CollectEntries(tree, dir, entries) ==
    IF Len(entries) = 0 THEN <<>>
    ELSE LET full == Join(dir, Head(entries))
             here == IF IsDirectory(tree, full) THEN CollectMarkdownFiles(tree, full)
                     ELSE IF Selects(Head(entries)) THEN <<full>>
                     ELSE <<>>
         IN  here \o CollectEntries(tree, dir, Tail(entries))

CollectMarkdownFiles(tree, dir) == CollectEntries(tree, dir, SeqOf(Readdir(tree, dir)))

MaxTreeFiles == 3
MaxBlocks == 2

Name_a_md == <<"a", ".", "m", "d">>
Name_b_md == <<"b", ".", "m", "d">>
Name_c_md == <<"c", ".", "m", "d">>
Name_x_md == <<"x", ".", "m", "d">>
Name_n_txt == <<"n", ".", "t", "x", "t">>
Name_a_jpg == <<"a", "-", "1", ".", "j", "p", "g">>

\* The files a tree may hold: documents at depth 0, 1 and 2, an output and
\* an image of an earlier run, a file that is no document, a document in a
\* directory whose own name ends with ".md", a document inside mermaid/.
TreePool ==
    { <<Name_a_md>>,
      <<Name_a_md \o Suffix("svg") \o MD_EXT>>,
      << <<"d">>, Name_a_md >>,
      << <<"d">>, Name_n_txt >>,
      << <<"d">>, <<"e">>, Name_b_md >>,
      << MERMAID_DIRNAME, Name_a_jpg >>,
      << MERMAID_DIRNAME, Name_c_md >>,
      << Name_x_md, Name_c_md >> }

Trees == {t \in SUBSET TreePool : Cardinality(t) <= MaxTreeFiles}

Root == <<>>

InitWalk ==
    /\ \E o \in Options : fmt = o[1] /\ mode = o[2]
    /\ fs \in Trees
    /\ selected = <<>>
    /\ produced = {}
    /\ files = <<>>
    /\ idx = 1
    /\ pc = "walk"
    /\ browser = "none" /\ page = "none" /\ launches = 0 /\ closes = 0
    /\ processed = 0 /\ error = "none" /\ exitCode = -1 /\ summary = <<>>
    /\ fatalMsg = "none" /\ dirs = {} /\ outputs = {} /\ reads = {}
    /\ diagramDocs = {}
    /\ IdleDoc

\* Line 245: main walks the directory it was given.
Walk ==
    /\ pc = "walk"
    /\ files' = CollectMarkdownFiles(fs, Root)
    /\ selected' = Append(selected, files')
    /\ idx' = 1
    /\ pc' = IF Len(selected) = 0 THEN "run" ELSE "rewalked"
    /\ UNCHANGED <<fs, produced>>
    /\ UNCHANGED <<fmt, mode, browser, page, launches, closes, processed, error,
                   exitCode, summary, fatalMsg, dirs, outputs, reads, diagramDocs>>
    /\ UNCHANGED docVars

\* What processFile writes into the tree for the document at idx that has
\* n blocks of which those of ok render: nothing when n = 0 (line 179),
\* else the output document (line 230) and, under --jpg --files, one image
\* per rendered block (line 216).
ProcessFileWrites ==
    /\ pc = "run"
    /\ idx <= Len(files)
    /\ \E n \in 0..MaxBlocks : \E ok \in SUBSET (0..(n - 1)) :
         LET w == IF n = 0 THEN {}
                  ELSE {OutPath(FilePath, fmt)}
                       \cup (IF fmt = "jpg" /\ mode = "files"
                             THEN {ImagePath(FilePath, k) : k \in ok}
                             ELSE {})
         IN  /\ fs' = fs \cup w
             /\ produced' = produced \cup w
    /\ idx' = idx + 1
    /\ UNCHANGED <<files, selected, pc>>
    /\ UNCHANGED <<fmt, mode, browser, page, launches, closes, processed, error,
                   exitCode, summary, fatalMsg, dirs, outputs, reads, diagramDocs>>
    /\ UNCHANGED docVars

\* The run is over (or was aborted): a later run starts on the same tree.
RunAgain ==
    /\ pc = "run"
    /\ pc' = "walk"
    /\ UNCHANGED <<files, idx, fs, selected, produced>>
    /\ UNCHANGED <<fmt, mode, browser, page, launches, closes, processed, error,
                   exitCode, summary, fatalMsg, dirs, outputs, reads, diagramDocs>>
    /\ UNCHANGED docVars

NextWalk ==
    \/ Walk
    \/ ProcessFileWrites
    \/ RunAgain

SpecWalk == InitWalk /\ [][NextWalk]_vars

-----------------------------------------------------------------------------
(* Properties.  What follows states the expected behaviour independently   *)
(* of the operators above.                                                 *)

Range(f) == {f[k] : k \in DOMAIN f}

Blocks == 1..Len(matches)

SpanStart(k) == matches[k].index
SpanEnd(k) == matches[k].index + Len(matches[k].whole)

\* The log entries of the render calls made for the k-th block.
Attempts(k) == {a \in 1..Len(renderLog) : renderLog[a].ord = k}

Rendered(k) == \E a \in Attempts(k) : renderLog[a].err = "none"

\* The replacement text of the k-th block, when it rendered.
ReplacementOf(k) ==
    renderLog[CHOOSE a \in Attempts(k) : renderLog[a].err = "none"].text

\* What stands for the k-th block in the output: its replacement, or its
\* original slice.
Outcome(k) ==
    IF Rendered(k) THEN ReplacementOf(k)
    ELSE Slice(content, SpanStart(k), SpanEnd(k))

RECURSIVE Substituted(_, _)
\* The original text from offset `from` on, with the blocks k, k+1, ...
\* substituted, built left to right.
Substituted(k, from) ==
    IF k > Len(matches) THEN Slice(content, from, Len(content))
    ELSE Slice(content, from, SpanStart(k)) \o Outcome(k)
            \o Substituted(k + 1, SpanEnd(k))

\* The loop of processFile is over for the document at hand.
LoopOver == Len(matches) > 0 /\ error = "none" /\ pc # "start" /\ pc # "init"
            /\ ~(pc = "loop" /\ i >= 0)

\* The output document of the document at hand has been written.
Wrote == LoopOver /\ pc = "return"

\* C1: the text written as output is the original text with each rendered
\* span replaced by its replacement and every other character, the slices
\* of the failed spans included, unchanged and in order.
C1_OffsetSafety == Wrote => outText = Substituted(1, 0)

\* C1 witness: two blocks rendered, the first by a shorter text and the
\* second by a longer one than their spans.
C1_Witness ==
    /\ Wrote
    /\ Len(matches) = 2
    /\ Rendered(1) /\ Rendered(2)
    /\ Len(ReplacementOf(1)) < SpanEnd(1) - SpanStart(1)
    /\ Len(ReplacementOf(2)) > SpanEnd(2) - SpanStart(2)

RECURSIVE Shift(_)
\* By how much the blocks before the k-th move the text that follows them.
Shift(k) ==
    IF k = 1 THEN 0
    ELSE Shift(k - 1) + Len(Outcome(k - 1)) - (SpanEnd(k - 1) - SpanStart(k - 1))

FailedBlocks == {k \in Blocks : ~Rendered(k)}

DiagramErrors ==
    {"render", "SVG element not found", "screenshot",
     "Screenshot capture failed", "writeFile image"}

\* C2: whatever subset of the diagrams fails, every diagram is attempted
\* exactly once, the failure counter ends as the number of failed ones,
\* the output holds the raw slice of each failed diagram and the
\* replacement of each other one, no diagram failure is ever thrown out of
\* the loop, the output is written and the next document is read.
C2_FailureIsolation ==
    /\ error \notin DiagramErrors
    /\ LoopOver =>
          /\ \A k \in Blocks : Cardinality(Attempts(k)) = 1
          /\ Len(renderLog) = Len(matches)
          /\ failures = Cardinality(FailedBlocks)
    /\ (pc = "loop" /\ i < 0) => ENABLED WriteOutput
    /\ Wrote =>
          /\ \A k \in Blocks :
                Slice(outText, SpanStart(k) + Shift(k),
                      SpanStart(k) + Shift(k) + Len(Outcome(k))) = Outcome(k)
          /\ \A k \in FailedBlocks :
                Outcome(k) = Slice(content, SpanStart(k), SpanEnd(k))
          /\ ret = TRUE
          /\ OutPath(FilePath, fmt) \in outputs
          /\ ENABLED Returned
    /\ (pc = "file" /\ idx <= Len(files)) => ENABLED ReadAndLocate

\* C2 witness: of two diagrams the second failed and the first rendered
\* after it, the output was written and another document follows.
C2_Witness ==
    /\ Wrote
    /\ Len(matches) = 2
    /\ FailedBlocks = {2}
    /\ failures = 1
    /\ idx < Len(files)

\* C3 as stated: the render calls of a document are issued in forward
\* document order, the ordinals reported increasing.
C3_ForwardOrder ==
    \A a, b \in 1..Len(renderLog) :
        a < b => renderLog[a].ord < renderLog[b].ord

\* C3 as amended: the render calls of a document are issued in reverse
\* document order, last block first, the ordinals reported n, n-1, ..., 1,
\* each block rendered in the loop iteration that splices it.
C3_ReverseOrder ==
    /\ \A a \in 1..Len(renderLog) : renderLog[a].ord = Len(matches) - a + 1
    /\ pc = "loop" => Len(renderLog) = Len(matches) - 1 - i
    /\ LoopOver => Len(renderLog) = Len(matches)

\* C3 witness: both blocks of a document have been rendered.
C3_Witness == pc = "loop" /\ Len(matches) = 2 /\ Len(renderLog) = 2

\* C4: the browser is launched at most once and before any document is
\* read, every render call finds the one page open, the browser is closed
\* exactly once on every way out (after the last document, after a failed
\* initialisation, after a failed read or write) and not before.
C4_SessionLifecycle ==
    /\ launches <= 1 /\ closes <= launches
    /\ reads # {} => launches = 1
    /\ \A a \in 1..Len(renderLog) : renderLog[a].page = "open"
    /\ page = "open" => browser = "open"
    /\ pc \in {"init", "file", "loop", "finally"} => browser = "open" /\ closes = 0
    /\ (launches = 1 /\ pc \in {"summary", "catch", "done", "exited"}) =>
          closes = 1 /\ browser = "closed" /\ page # "open"
    /\ (closes = 1 /\ error = "none") => idx > Len(files)

\* C4 witness: the first document was rendered and written, the read of
\* the second failed, and the run has ended with the browser closed once.
C4_Witness ==
    /\ pc = "exited" /\ error = "readFile" /\ idx = 2
    /\ closes = 1 /\ processed = 1

\* C5: a document without a block is neither rendered nor written nor
\* counted and gets no mermaid/ directory; the processed count is the
\* number of documents with a block whose output was written.
C5_NoDiagramNoOp ==
    /\ Len(matches) = 0 => renderLog = <<>> /\ outText = <<>> /\ images = {}
    /\ (pc = "return" /\ Len(matches) = 0) =>
          ret = FALSE /\ OutPath(FilePath, fmt) \notin outputs
    /\ (pc = "return" /\ ret = FALSE) => Len(matches) = 0
    /\ outputs \subseteq {OutPath(f, fmt) : f \in diagramDocs}
    /\ dirs \subseteq {MermaidDir(f) : f \in diagramDocs}
    /\ processed + (IF pc = "return" /\ ret = TRUE THEN 1 ELSE 0)
          = Cardinality({f \in diagramDocs : OutPath(f, fmt) \in outputs})
    /\ summary # <<>> =>
          summary[1] = Cardinality({f \in diagramDocs : OutPath(f, fmt) \in outputs})

\* C5 witness: the first document was written and counted, the second
\* one, not empty, has no block and processFile has returned false.
C5_Witness ==
    /\ pc = "return" /\ ret = FALSE /\ idx = 2
    /\ Len(matches) = 0 /\ Len(content) > 0
    /\ processed = 1

FatalErrors == {"launch", "newPage", "Mermaid failed to load", "readFile", "mkdir", "writeFile"}

\* C6: once a document read or write (or the initialisation) has failed,
\* nothing more is read, rendered or written, no summary is printed, and
\* the run ends with outcome 1 and a diagnostic; after a failed
\* initialisation no document was processed at all.
C6_FatalPropagation ==
    /\ [](/\ error # "none" =>
                /\ error \in FatalErrors
                /\ pc \in {"finally", "catch", "exited"}
                /\ summary = <<>> /\ exitCode # 0
                /\ reads \subseteq 1..idx
          /\ error \in {"launch", "newPage", "Mermaid failed to load"} =>
                reads = {} /\ outputs = {} /\ renderLog = <<>> /\ processed = 0
          /\ pc = "exited" => exitCode = 1 /\ fatalMsg = error /\ error # "none"
          /\ exitCode = 1 => pc = "exited")
    /\ [][error # "none" =>
             UNCHANGED <<reads, renderLog, outputs, images, dirs, processed,
                         idx, error, summary>>]_vars

\* C6 witness: the write of the first of two documents failed; the run
\* ended with outcome 1 and the second document was never read.
C6_Witness ==
    /\ pc = "exited" /\ error = "writeFile" /\ exitCode = 1
    /\ Len(files) = 2 /\ reads = {1}

\* The document the variables of processFile belong to.
FilePathOfDoc == files[idx]

DocAtHand == idx \in reads /\ idx <= Len(files)

\* <name> of a document: its last name without the extension.
NameOf(filePath) ==
    LET name == LastName(filePath)
        dots == {k \in 2..Len(name) : name[k] = "."}
    IN  IF dots = {} THEN name ELSE SubSeq(name, 1, Max(dots) - 1)

Caption(k) == <<"!", "[", "D", "i", "a", "g", "r", "a", "m", " ">>
                 \o NumberToString(k) \o <<"]", "(">>

ExpectedImageName(k) ==
    NameOf(FilePathOfDoc) \o <<"-">> \o NumberToString(k) \o <<".", "j", "p", "g">>

ExpectedReference(k) ==
    Caption(k) \o <<".", "/", "m", "e", "r", "m", "a", "i", "d", "/">>
        \o ExpectedImageName(k) \o <<")">>

ExpectedImagePath(k) ==
    Append(Append(Dirname(FilePathOfDoc), <<"m", "e", "r", "m", "a", "i", "d">>),
           ExpectedImageName(k))

\* The text that holds the replacements made so far: the output document
\* once written, result before.
CurrentText == IF Wrote THEN outText ELSE result

\* C7: in raster mode the k-th block in document order, failed ones
\* counted, is captioned "Diagram k" when it renders; in external-file
\* mode its image is <sourceDir>/mermaid/<name>-k.jpg, its reference
\* ![Diagram k](./mermaid/<name>-k.jpg), and the text references such a
\* file only if it was written.
C7_OrdinalsAndNames ==
    (fmt = "jpg" /\ Len(matches) > 0 /\ DocAtHand) =>
        /\ \A a \in 1..Len(renderLog) :
              LET e == renderLog[a]
              IN  /\ e.ord \in Blocks
                  /\ e.code = Trim(matches[e.ord].group)
                  /\ e.err = "none" =>
                        /\ StartsWithAt(e.text, Caption(e.ord), 0)
                        /\ mode = "files" =>
                              /\ e.text = ExpectedReference(e.ord)
                              /\ ExpectedImagePath(e.ord) \in images
        /\ mode = "files" =>
              /\ \A k \in Blocks :
                    Includes(CurrentText, ExpectedReference(k)) =>
                        ExpectedImagePath(k) \in images
              /\ \A k \in Blocks :
                    Rendered(k) => Includes(CurrentText, ExpectedReference(k))
              /\ images \subseteq {ExpectedImagePath(k) : k \in Blocks}

\* C7 witness: in external-file mode the first of two blocks failed and
\* the second rendered; the output was written.
C7_Witness ==
    /\ fmt = "jpg" /\ mode = "files"
    /\ Wrote /\ Len(matches) = 2
    /\ FailedBlocks = {1}
    /\ Cardinality(images) = 1

\* A line begins at offset p.
BeginsLine(s, p) == p = 0 \/ s[p] \in {"\n", "\r"}

\* The offset at which the line that holds offset p ends (before its
\* terminator).
LineEndFrom(s, p) ==
    Min({e \in p..Len(s) : e = Len(s) \/ s[e + 1] \in {"\n", "\r"}})

OpeningFenceLineAt(s, p) == BeginsLine(s, p) /\ StartsWithAt(s, OPEN_FENCE, p)

\* A closing fence line begins at r: the fence token at the start of a
\* line, and nothing but blanks up to the end of that line.
ClosingFenceLineAt(s, r) ==
    /\ BeginsLine(s, r)
    /\ StartsWithAt(s, FENCE, r)
    /\ \A k \in (r + Len(FENCE) + 1)..LineEndFrom(s, r) : s[k] \in {" ", "\t"}

\* Where the body of the k-th block begins (after the opening fence line)
\* and where its closing fence token begins.
BodyStart(k) ==
    SpanStart(k) + Min({q \in 1..Len(matches[k].whole) : matches[k].whole[q] = "\n"})
ClosingOffset(k) == BodyStart(k) + Len(matches[k].group)

\* C8: the opening and the closing boundary of every block begin a line,
\* an opening fence line with no closing fence line after it starts no
\* block, and the blocks are in document order and do not overlap.
C8_Anchoring ==
    pc = "located" =>
        /\ \A k \in Blocks :
              /\ matches[k].whole = Slice(content, SpanStart(k), SpanEnd(k))
              /\ OpeningFenceLineAt(content, SpanStart(k))
              /\ BodyStart(k) <= ClosingOffset(k)
              /\ ClosingOffset(k) + Len(FENCE) <= SpanEnd(k)
              /\ ClosingFenceLineAt(content, ClosingOffset(k))
              /\ matches[k].group = Slice(content, BodyStart(k), ClosingOffset(k))
        /\ \A p \in 0..Len(content) :
              (/\ OpeningFenceLineAt(content, p)
               /\ ~\E r \in (p + 1)..Len(content) : ClosingFenceLineAt(content, r))
              => \A k \in Blocks : SpanStart(k) # p
        /\ \A a, b \in Blocks : a < b => SpanEnd(a) <= SpanStart(b)

\* C8 witness: a located block in a document that also holds a fence
\* token in the middle of a line.
C8_Witness ==
    /\ pc = "located"
    /\ Len(matches) >= 1
    /\ \E p \in 1..Len(content) :
          StartsWithAt(content, FENCE, p) /\ ~BeginsLine(content, p)
              /\ content[p] # Tick

SelectableName(name) ==
    /\ Len(name) >= 3
    /\ SubSeq(name, Len(name) - 2, Len(name)) = <<".", "m", "d">>
    /\ ~\E p \in 0..Len(name) :
          /\ p + 9 <= Len(name)
          /\ SubSeq(name, p + 1, p + 9) = <<"_", "m", "e", "r", "m", "a", "i", "d", "2">>

\* C9: a walk selects exactly the files whose name ends with .md and does
\* not hold _mermaid2, at any depth; no file a run wrote is selected by
\* the walk after it, which selects what the walk before the run selected.
C9_RescanExclusion ==
    /\ ((Len(selected) = 1 /\ produced = {}) \/ Len(selected) = 2) =>
          LET last == selected[Len(selected)]
          IN  /\ Range(last) = {f \in fs : SelectableName(f[Len(f)])}
              /\ Cardinality(Range(last)) = Len(last)
    /\ Len(selected) = 2 =>
          /\ Range(selected[2]) \cap produced = {}
          /\ Range(selected[2]) = Range(selected[1])

\* C9 witness: a run wrote an output document and an image for a document
\* two directories deep, and the tree was walked again.
C9_Witness ==
    /\ Len(selected) = 2
    /\ \E f \in Range(selected[1]) :
          /\ Len(f) = 3
          /\ OutPath(f, fmt) \in produced
          /\ ImagePath(f, 0) \in produced

\* The offset at which the closing fence line of the k-th block ends.
FenceLineEnd(k) == LineEndFrom(content, ClosingOffset(k))

\* C10 as stated: the span of a block ends where its closing fence line
\* ends, so what follows that line, blank lines and a final line
\* terminator included, is in the output unchanged.
C10_ExactSpan ==
    (Len(matches) > 0 /\ DocAtHand) =>
        /\ \A k \in Blocks : SpanEnd(k) = FenceLineEnd(k)
        /\ (Wrote /\ Rendered(Len(matches))) =>
              EndsWith(outText,
                       Slice(content, FenceLineEnd(Len(matches)), Len(content)))

=============================================================================
